---- MODULE Spec2Model ----
(***************************************************************************)
(* capscr-plugins: the Borders plugin (src/borders/src/lib.rs), and the    *)
(* worker threads of the Sounds plugin (src/sounds/src/lib.rs) and of the  *)
(* Hotbar plugin (src/hotbar/src/lib.rs).                                  *)
(*                                                                         *)
(* The plugin holds a BorderConfig.  on_event gates a PostCapture event    *)
(* with should_process and then runs apply_border: allocate the canvas,    *)
(* draw the shadow, draw the border, copy the source image, apply the      *)
(* corner mask.  Each stage of apply_border is one step of the handler.    *)
(*                                                                         *)
(* Conventions                                                             *)
(*   Option<T>      <<>> is None, <<v>> is Some(v)                         *)
(*   Rgba<u8>       <<r, g, b, a>>                                         *)
(*   RgbaImage      [width, height, px], px a function on <<x, y>>         *)
(*   String         a sequence of one-character strings                    *)
(*   u32, i32       plain integers in Spec, where every value is small; in *)
(*                  SpecDims, which follows the dimension arithmetic over  *)
(*                  the whole range of the types, <<hi, lo>> with two      *)
(*                  16-bit limbs, i32 in two's complement                  *)
(*   f32            the shadow falloff and the blend are computed in exact *)
(*                  rational arithmetic and truncated as the casts do; the *)
(*                  colours of the model are chosen where this agrees with *)
(*                  the IEEE single precision result                       *)
(***************************************************************************)
EXTENDS Integers, Sequences, FiniteSets, TLC

VARIABLES config, source, event, pc, canvas, response, dims, sounds, hotbar

vars == <<config, source, event, pc, canvas, response, dims, sounds, hotbar>>

(***************************************************************************)
(* Bounds of the model.                                                    *)
(***************************************************************************)
MaxSrc == 2
MaxSize == 3
MaxPad == 1
MaxOffset == 1
MaxBlur == 3
MaxRadius == 4
MaxModes == 2
MaxEdge == 16
MaxPlays == 2
MaxMessages == 2

(***************************************************************************)
(* Option and integer helpers.                                             *)
(***************************************************************************)
None == <<>>
Some(v) == <<v>>
IsSome(o) == Len(o) = 1
Unwrap(o) == o[1]

unsigned_abs(v) == IF v < 0 THEN -v ELSE v

saturating_sub(a, b) == IF a > b THEN a - b ELSE 0

u8_saturating_add(a, b) == IF a + b > 255 THEN 255 ELSE a + b

(***************************************************************************)
(* Images.                                                                 *)
(***************************************************************************)
Coords(w, h) == (0 .. w - 1) \X (0 .. h - 1)

from_pixel(w, h, p) ==
    [width |-> w, height |-> h, px |-> [q \in Coords(w, h) |-> p]]

Transparent == <<0, 0, 0, 0>>
White == <<255, 255, 255, 255>>

(***************************************************************************)
(* should_process: the capture mode filter.                                *)
(***************************************************************************)
UpperCase == <<"A", "B", "C", "D", "E", "F", "G", "H", "I", "J", "K", "L", "M",
               "N", "O", "P", "Q", "R", "S", "T", "U", "V", "W", "X", "Y", "Z">>
LowerCase == <<"a", "b", "c", "d", "e", "f", "g", "h", "i", "j", "k", "l", "m",
               "n", "o", "p", "q", "r", "s", "t", "u", "v", "w", "x", "y", "z">>

char_to_lowercase(c) ==
    IF \E i \in DOMAIN UpperCase : UpperCase[i] = c
    THEN LowerCase[CHOOSE i \in DOMAIN UpperCase : UpperCase[i] = c]
    ELSE c

to_lowercase(s) == [i \in DOMAIN s |-> char_to_lowercase(s[i])]

CaptureTypes == {"FullScreen", "Window", "Region", "Gif"}

mode_str(mode) ==
    CASE mode = "FullScreen" -> <<"f", "u", "l", "l", "s", "c", "r", "e", "e", "n">>
      [] mode = "Window" -> <<"w", "i", "n", "d", "o", "w">>
      [] mode = "Region" -> <<"r", "e", "g", "i", "o", "n">>
      [] mode = "Gif" -> <<"g", "i", "f">>

\* should_process comparing the entries without lower-casing them
should_process_case_sensitive(cfg, mode) ==
    IF ~cfg.enabled
    THEN FALSE
    ELSE IF IsSome(cfg.only_modes)
         THEN \E i \in DOMAIN Unwrap(cfg.only_modes) :
                  Unwrap(cfg.only_modes)[i] = mode_str(mode)
         ELSE TRUE

\* should_process without the enabled test
should_process_ignoring_enabled(cfg, mode) ==
    IF IsSome(cfg.only_modes)
    THEN \E i \in DOMAIN Unwrap(cfg.only_modes) :
             to_lowercase(Unwrap(cfg.only_modes)[i]) = mode_str(mode)
    ELSE TRUE

should_process(cfg, mode) ==
    IF ~cfg.enabled
    THEN FALSE
    ELSE IF IsSome(cfg.only_modes)
         THEN \E i \in DOMAIN Unwrap(cfg.only_modes) :
                  to_lowercase(Unwrap(cfg.only_modes)[i]) = mode_str(mode)
         ELSE TRUE

(***************************************************************************)
(* Canvas sizing.                                                          *)
(***************************************************************************)
\* calculate_shadow_extra with the offsets taken signed
calculate_shadow_extra_signed(cfg) ==
    IF IsSome(cfg.shadow)
    THEN LET shadow == Unwrap(cfg.shadow)
             blur == shadow.blur_radius
         IN  <<shadow.offset_x + blur * 2, shadow.offset_y + blur * 2>>
    ELSE <<0, 0>>

calculate_shadow_extra(cfg) ==
    IF IsSome(cfg.shadow)
    THEN LET shadow == Unwrap(cfg.shadow)
             blur == shadow.blur_radius
         IN  <<unsigned_abs(shadow.offset_x) + blur * 2,
               unsigned_abs(shadow.offset_y) + blur * 2>>
    ELSE <<0, 0>>

new_width(cfg, orig_width) ==
    orig_width + (cfg.size + cfg.padding) * 2 + calculate_shadow_extra(cfg)[1]

new_height(cfg, orig_height) ==
    orig_height + (cfg.size + cfg.padding) * 2 + calculate_shadow_extra(cfg)[2]

content_x(cfg) ==
    LET shadow_extra == calculate_shadow_extra(cfg)
    IN  cfg.size + cfg.padding
          + saturating_sub(shadow_extra[1], shadow_extra[1] \div 2)

content_y(cfg) ==
    LET shadow_extra == calculate_shadow_extra(cfg)
    IN  cfg.size + cfg.padding
          + saturating_sub(shadow_extra[2], shadow_extra[2] \div 2)

bg_color(cfg) ==
    IF IsSome(cfg.background_color) THEN Unwrap(cfg.background_color)
    ELSE Transparent

(***************************************************************************)
(* blend_pixel: source-over.  With sa, da the 8-bit alphas,                *)
(*   out_a = (255*sa + da*(255 - sa)) / 255^2                              *)
(*   out_c = (255*s*sa + d*da*(255 - sa)) / (255*sa + da*(255 - sa))       *)
(* and the casts to u8 truncate.                                           *)
(***************************************************************************)
blend_pixel(dst, src) ==
    LET sa == src[4]
        da == dst[4]
        out_a == 255 * sa + da * (255 - sa)
        blend(s, d) == (255 * s * sa + d * da * (255 - sa)) \div out_a
    IN  IF out_a = 0
        THEN dst
        ELSE <<blend(src[1], dst[1]), blend(src[2], dst[2]),
               blend(src[3], dst[3]), out_a \div 255>>

(***************************************************************************)
(* draw_shadow.  n is dist_x^2 + dist_y^2, so dist = sqrt(n).              *)
(***************************************************************************)
shadow_dist(v, content) ==
    IF v < 0 THEN -v
    ELSE IF v >= content THEN v - content + 1
    ELSE 0

\* the distance test left out
shadow_skip_never(blur, n) == FALSE

\* dist > blur as f32, for blur > 0
shadow_skip(blur, n) == blur > 0 /\ n > blur * blur

\* (shadow_alpha * factor * factor) as u8 with factor = 1 - sqrt(n)/blur: the
\* largest k <= 255 (the cast saturates) with k * blur^2 <= a * (blur - sqrt(n))^2
falloff_reaches(a, blur, n, k) ==
    LET t == a * (blur * blur + n) - k * blur * blur
    IN  t >= 0 /\ 4 * a * a * blur * blur * n <= t * t

\* the falloff with factor = dist / blur
shadow_alpha_inverted(a, blur, n) ==
    IF blur > 0 THEN (a * n) \div (blur * blur) ELSE a

shadow_alpha(a, blur, n) ==
    IF blur > 0
    THEN CHOOSE k \in 0 .. 255 :
             /\ falloff_reaches(a, blur, n, k)
             /\ (k = 255 \/ ~falloff_reaches(a, blur, n, k + 1))
    ELSE a

\* the shadow base with the smaller half of the extent before the content
shadow_origin_small_half(cfg, shadow) ==
    LET shadow_extra == calculate_shadow_extra(cfg)
        base_x == cfg.size + cfg.padding + shadow_extra[1] \div 2
        base_y == cfg.size + cfg.padding + shadow_extra[2] \div 2
    IN  <<base_x + shadow.offset_x, base_y + shadow.offset_y>>

\* shadow_x, shadow_y: the content offset plus the configured offset
shadow_origin(cfg, shadow) ==
    LET shadow_extra == calculate_shadow_extra(cfg)
        base_x == cfg.size + cfg.padding
                    + saturating_sub(shadow_extra[1], shadow_extra[1] \div 2)
        base_y == cfg.size + cfg.padding
                    + saturating_sub(shadow_extra[2], shadow_extra[2] \div 2)
    IN  <<base_x + shadow.offset_x, base_y + shadow.offset_y>>

\* dist_x * dist_x + dist_y * dist_y at the canvas pixel q
shadow_n(cfg, content_w, content_h, shadow, q) ==
    LET o == shadow_origin(cfg, shadow)
        dist_x == shadow_dist(q[1] - o[1], content_w)
        dist_y == shadow_dist(q[2] - o[2], content_h)
    IN  dist_x * dist_x + dist_y * dist_y

\* the canvas pixels the loops reach blend_pixel with
shadow_footprint(cfg, image, content_w, content_h, shadow) ==
    LET o == shadow_origin(cfg, shadow)
        blur == shadow.blur_radius
    IN  {q \in DOMAIN image.px :
            /\ q[1] - o[1] \in -blur .. content_w + blur
            /\ q[2] - o[2] \in -blur .. content_h + blur
            /\ ~shadow_skip(blur, shadow_n(cfg, content_w, content_h, shadow, q))}

draw_shadow(cfg, image, content_w, content_h, shadow) ==
    LET footprint == shadow_footprint(cfg, image, content_w, content_h, shadow)
        shadow_color == shadow.color
        pixel(q) ==
            <<shadow_color[1], shadow_color[2], shadow_color[3],
              shadow_alpha(shadow_color[4], shadow.blur_radius,
                           shadow_n(cfg, content_w, content_h, shadow, q))>>
    IN  [image EXCEPT !.px =
            [q \in DOMAIN image.px |->
                IF q \in footprint
                THEN blend_pixel(image.px[q], pixel(q))
                ELSE image.px[q]]]

(***************************************************************************)
(* Border rendering.  One ring is the two loops of a ring iteration: the   *)
(* horizontal loop writes row y1 then row y2, the vertical loop, which     *)
(* runs second, writes column x1 then column x2.  on(pos) is the dash      *)
(* test of draw_dashed_border and TRUE for the other styles.               *)
(***************************************************************************)
\* a ring iteration filling its rectangle instead of outlining it
draw_ring_filled(image, x1, y1, x2, y2, top_color, bottom_color, dash_len, gap_len) ==
    [image EXCEPT !.px =
        [q \in DOMAIN image.px |->
            IF q[1] >= x1 /\ q[1] <= x2 /\ q[2] >= y1 /\ q[2] <= y2
            THEN top_color
            ELSE image.px[q]]]

\* a ring iteration with the horizontal loop run after the vertical one
draw_ring_rows_last(image, x1, y1, x2, y2, top_color, bottom_color, dash_len, gap_len) ==
    LET on(pos) == (pos % (dash_len + gap_len)) < dash_len
        horizontal(q) == q[1] >= x1 /\ q[1] <= x2 /\ on(q[1] - x1)
        vertical(q) == q[2] >= y1 /\ q[2] <= y2 /\ on(q[2] - y1)
    IN  [image EXCEPT !.px =
            [q \in DOMAIN image.px |->
                IF horizontal(q) /\ q[2] = y2 THEN bottom_color
                ELSE IF horizontal(q) /\ q[2] = y1 THEN top_color
                ELSE IF vertical(q) /\ q[1] = x2 THEN bottom_color
                ELSE IF vertical(q) /\ q[1] = x1 THEN top_color
                ELSE image.px[q]]]

draw_ring(image, x1, y1, x2, y2, top_color, bottom_color, dash_len, gap_len) ==
    LET on(pos) == (pos % (dash_len + gap_len)) < dash_len
        horizontal(q) == q[1] >= x1 /\ q[1] <= x2 /\ on(q[1] - x1)
        vertical(q) == q[2] >= y1 /\ q[2] <= y2 /\ on(q[2] - y1)
    IN  [image EXCEPT !.px =
            [q \in DOMAIN image.px |->
                IF vertical(q) /\ q[1] = x2 THEN bottom_color
                ELSE IF vertical(q) /\ q[1] = x1 THEN top_color
                ELSE IF horizontal(q) /\ q[2] = y2 THEN bottom_color
                ELSE IF horizontal(q) /\ q[2] = y1 THEN top_color
                ELSE image.px[q]]]

RECURSIVE solid_rings(_, _, _, _, _, _, _, _)
solid_rings(image, cx, cy, cw, ch, border, color, i) ==
    IF i >= border
    THEN image
    ELSE solid_rings(
             draw_ring(image, saturating_sub(cx, i + 1), saturating_sub(cy, i + 1),
                       cx + cw + i, cy + ch + i, color, color, 1, 0),
             cx, cy, cw, ch, border, color, i + 1)

\* the border drawn beneath what the canvas already holds
draw_solid_border_beneath(image, cx, cy, cw, ch, border, color) ==
    LET blank == [image EXCEPT !.px = [q \in DOMAIN image.px |-> <<>>]]
        mark == solid_rings(blank, cx, cy, cw, ch, border, color, 0)
    IN  [image EXCEPT !.px =
            [q \in DOMAIN image.px |->
                IF mark.px[q] = color
                THEN blend_pixel(color, image.px[q])
                ELSE image.px[q]]]

draw_solid_border(image, cx, cy, cw, ch, border, color) ==
    solid_rings(image, cx, cy, cw, ch, border, color, 0)

double_widths(border) ==
    LET outer_width == border \div 3
        inner_width == border \div 3
        gap == border - outer_width - inner_width
    IN  [outer_width |-> outer_width, inner_width |-> inner_width, gap |-> gap]

\* draw_double_border with the outer ring drawn right after the inner one
draw_double_border_no_gap(image, cx, cy, cw, ch, border, color) ==
    LET w == double_widths(border)
        inner == draw_solid_border(image, cx, cy, cw, ch, w.inner_width, color)
        outer_cx == saturating_sub(cx, w.inner_width)
        outer_cy == saturating_sub(cy, w.inner_width)
        outer_cw == cw + w.inner_width * 2
        outer_ch == ch + w.inner_width * 2
    IN  draw_solid_border(inner, outer_cx, outer_cy, outer_cw, outer_ch,
                          w.outer_width, color)

draw_double_border(image, cx, cy, cw, ch, border, color) ==
    LET w == double_widths(border)
        inner == draw_solid_border(image, cx, cy, cw, ch, w.inner_width, color)
        outer_cx == saturating_sub(cx, w.inner_width + w.gap)
        outer_cy == saturating_sub(cy, w.inner_width + w.gap)
        outer_cw == cw + (w.inner_width + w.gap) * 2
        outer_ch == ch + (w.inner_width + w.gap) * 2
    IN  draw_solid_border(inner, outer_cx, outer_cy, outer_cw, outer_ch,
                          w.outer_width, color)

RECURSIVE dashed_rings(_, _, _, _, _, _, _, _, _, _)
dashed_rings(image, cx, cy, cw, ch, border, color, dash_len, gap_len, i) ==
    IF i >= border
    THEN image
    ELSE dashed_rings(
             draw_ring(image, saturating_sub(cx, i + 1), saturating_sub(cy, i + 1),
                       cx + cw + i, cy + ch + i, color, color, dash_len, gap_len),
             cx, cy, cw, ch, border, color, dash_len, gap_len, i + 1)

\* the on and off lengths exchanged
draw_dashed_border_swapped(image, cx, cy, cw, ch, border, color, dash_len, gap_len) ==
    dashed_rings(image, cx, cy, cw, ch, border, color, gap_len, dash_len, 0)

draw_dashed_border(image, cx, cy, cw, ch, border, color, dash_len, gap_len) ==
    dashed_rings(image, cx, cy, cw, ch, border, color, dash_len, gap_len, 0)

\* the shades computed with wrapping u8 arithmetic
calculate_3d_colors_wrapping(base) ==
    LET lighten(v) == (v + 60) % 256
        darken(v) == (v - 60) % 256
    IN  [light |-> <<lighten(base[1]), lighten(base[2]), lighten(base[3]), base[4]>>,
         dark |-> <<darken(base[1]), darken(base[2]), darken(base[3]), base[4]>>]

calculate_3d_colors(base) ==
    LET lighten(v) == u8_saturating_add(v, 60)
        darken(v) == saturating_sub(v, 60)
    IN  [light |-> <<lighten(base[1]), lighten(base[2]), lighten(base[3]), base[4]>>,
         dark |-> <<darken(base[1]), darken(base[2]), darken(base[3]), base[4]>>]

\* one of the two loops of draw_3d_border: rings first .. first + half - 1
RECURSIVE half_rings(_, _, _, _, _, _, _, _, _, _)
half_rings(image, cx, cy, cw, ch, half, first, top, bottom, i) ==
    IF i >= half
    THEN image
    ELSE half_rings(
             draw_ring(image, saturating_sub(cx, first + i + 1),
                       saturating_sub(cy, first + i + 1),
                       cx + cw + first + i, cy + ch + first + i, top, bottom, 1, 0),
             cx, cy, cw, ch, half, first, top, bottom, i + 1)

draw_3d_border(image, cx, cy, cw, ch, border, color, groove) ==
    LET half == border \div 2
        c == calculate_3d_colors(color)
        outer_top == IF groove THEN c.dark ELSE c.light
        outer_bottom == IF groove THEN c.light ELSE c.dark
        inner_top == IF groove THEN c.light ELSE c.dark
        inner_bottom == IF groove THEN c.dark ELSE c.light
        outer == half_rings(image, cx, cy, cw, ch, half, half,
                            outer_top, outer_bottom, 0)
    IN  half_rings(outer, cx, cy, cw, ch, half, 0, inner_top, inner_bottom, 0)

RECURSIVE inset_rings(_, _, _, _, _, _, _, _, _)
inset_rings(image, cx, cy, cw, ch, border, top_color, bottom_color, i) ==
    IF i >= border
    THEN image
    ELSE inset_rings(
             draw_ring(image, saturating_sub(cx, i + 1), saturating_sub(cy, i + 1),
                       cx + cw + i, cy + ch + i, top_color, bottom_color, 1, 0),
             cx, cy, cw, ch, border, top_color, bottom_color, i + 1)

draw_inset_border(image, cx, cy, cw, ch, border, color, inset) ==
    LET c == calculate_3d_colors(color)
        top_color == IF inset THEN c.dark ELSE c.light
        bottom_color == IF inset THEN c.light ELSE c.dark
    IN  inset_rings(image, cx, cy, cw, ch, border, top_color, bottom_color, 0)

draw_border(cfg, image, cx, cy, cw, ch) ==
    LET border == cfg.size
        color == cfg.color
    IN  IF border = 0 THEN image
        ELSE CASE cfg.style = "Solid" ->
                    draw_solid_border(image, cx, cy, cw, ch, border, color)
               [] cfg.style = "Double" ->
                    draw_double_border(image, cx, cy, cw, ch, border, color)
               [] cfg.style = "Dashed" ->
                    draw_dashed_border(image, cx, cy, cw, ch, border, color, 10, 5)
               [] cfg.style = "Dotted" ->
                    draw_dashed_border(image, cx, cy, cw, ch, border, color, 2, 2)
               [] cfg.style = "Groove" ->
                    draw_3d_border(image, cx, cy, cw, ch, border, color, TRUE)
               [] cfg.style = "Ridge" ->
                    draw_3d_border(image, cx, cy, cw, ch, border, color, FALSE)
               [] cfg.style = "Inset" ->
                    draw_inset_border(image, cx, cy, cw, ch, border, color, TRUE)
               [] cfg.style = "Outset" ->
                    draw_inset_border(image, cx, cy, cw, ch, border, color, FALSE)

(***************************************************************************)
(* The copy loop of apply_border.                                          *)
(***************************************************************************)
\* the copy loop compositing the source instead of overwriting
copy_image_blended(result, image, cx, cy) ==
    [result EXCEPT !.px =
        [q \in DOMAIN result.px |->
            IF /\ q[1] >= cx /\ q[1] - cx < image.width
               /\ q[2] >= cy /\ q[2] - cy < image.height
            THEN blend_pixel(result.px[q], image.px[<<q[1] - cx, q[2] - cy>>])
            ELSE result.px[q]]]

copy_image(result, image, cx, cy) ==
    [result EXCEPT !.px =
        [q \in DOMAIN result.px |->
            IF /\ q[1] >= cx /\ q[1] - cx < image.width
               /\ q[2] >= cy /\ q[2] - cy < image.height
            THEN image.px[<<q[1] - cx, q[2] - cy>>]
            ELSE result.px[q]]]

(***************************************************************************)
(* apply_corner_mask.  The anchors of the right and bottom corners are     *)
(* cx + cw + border - radius and cy + ch + border - radius in u32: when    *)
(* radius is the larger, a build with overflow checks panics there and a   *)
(* build without them wraps.  A wrapped anchor wraps back in               *)
(* corner + radius - 1 - d, so px and py are kept as integers here and a   *)
(* coordinate below 0 stands for a u32 above every image width.            *)
(***************************************************************************)
mask_underflows(cfg, cx, cy, cw, ch) ==
    \/ cx + cw + cfg.size < cfg.corner_radius
    \/ cy + ch + cfg.size < cfg.corner_radius

\* corners with the right-hand corners not mirrored
corners_unflipped(cfg, cx, cy, cw, ch) ==
    LET radius == cfg.corner_radius
        border == cfg.size
    IN  << <<saturating_sub(cx, border), saturating_sub(cy, border), FALSE, FALSE>>,
           <<cx + cw + border - radius, saturating_sub(cy, border), FALSE, FALSE>>,
           <<saturating_sub(cx, border), cy + ch + border - radius, FALSE, TRUE>>,
           <<cx + cw + border - radius, cy + ch + border - radius, FALSE, TRUE>> >>

corners(cfg, cx, cy, cw, ch) ==
    LET radius == cfg.corner_radius
        border == cfg.size
    IN  << <<saturating_sub(cx, border), saturating_sub(cy, border), FALSE, FALSE>>,
           <<cx + cw + border - radius, saturating_sub(cy, border), TRUE, FALSE>>,
           <<saturating_sub(cx, border), cy + ch + border - radius, FALSE, TRUE>>,
           <<cx + cw + border - radius, cy + ch + border - radius, TRUE, TRUE>> >>

\* dist > radius as f32, dist = sqrt(dx*dx + dy*dy)
outside_radius(dx, dy, radius) == dx * dx + dy * dy > radius * radius

\* the pixels the loop over corner k sets to [0, 0, 0, 0]
corner_cleared(cfg, image, cx, cy, cw, ch, k) ==
    LET radius == cfg.corner_radius
        corner == corners(cfg, cx, cy, cw, ch)[k]
        px(dx) == IF corner[3] THEN corner[1] + radius - 1 - dx ELSE corner[1] + dx
        py(dy) == IF corner[4] THEN corner[2] + radius - 1 - dy ELSE corner[2] + dy
    IN  {q \in {<<px(d[1]), py(d[2])>> :
                    d \in {e \in (0 .. radius - 1) \X (0 .. radius - 1) :
                               outside_radius(e[1], e[2], radius)}} :
            /\ q[1] >= 0 /\ q[1] < image.width
            /\ q[2] >= 0 /\ q[2] < image.height}

apply_corner_mask(cfg, image, cx, cy, cw, ch) ==
    LET cleared == UNION {corner_cleared(cfg, image, cx, cy, cw, ch, k) : k \in 1 .. 4}
    IN  [image EXCEPT !.px =
            [q \in DOMAIN image.px |->
                IF q \in cleared THEN Transparent ELSE image.px[q]]]

(***************************************************************************)
(* Inputs: the configurations the plugin is constructed with (with_config) *)
(* and the captures the host delivers.                                     *)
(***************************************************************************)
Styles == {"Solid", "Double", "Dashed", "Dotted", "Groove", "Ridge", "Inset", "Outset"}

DefaultColor == <<60, 60, 60, 255>>

DefaultConfig ==
    [enabled |-> TRUE, style |-> "Solid", size |-> 3, color |-> DefaultColor,
     corner_radius |-> 0, shadow |-> None, padding |-> 0,
     background_color |-> None, only_modes |-> None]

Backgrounds == {None, Some(<<10, 20, 30, 255>>)}

ShadowColor == <<0, 0, 0, 128>>

Shadows ==
    {[offset_x |-> ox, offset_y |-> oy, blur_radius |-> b, color |-> ShadowColor] :
        ox \in -MaxOffset .. MaxOffset, oy \in -MaxOffset .. MaxOffset,
        b \in 0 .. MaxBlur}

SoftShadow ==
    [offset_x |-> 1, offset_y |-> -1, blur_radius |-> 1, color |-> ShadowColor]

HardShadow ==
    [offset_x |-> 1, offset_y |-> 1, blur_radius |-> 0, color |-> ShadowColor]

ModeNames ==
    { <<"g", "i", "f">>, <<"G", "i", "f">>, <<"W", "I", "N", "D", "O", "W">>,
      <<"r", "e", "g", "i", "o", "n">>,
      <<"f", "u", "l", "l", "s", "c", "r", "e", "e", "n">>,
      <<"f", "u", "l", "l">> }

ModeLists == UNION {[1 .. n -> ModeNames] : n \in 0 .. MaxModes}

StyleConfigs ==
    {[DefaultConfig EXCEPT !.style = st, !.size = sz, !.padding = p,
                           !.shadow = sh, !.background_color = bg] :
        st \in Styles, sz \in 0 .. MaxSize, p \in 0 .. MaxPad,
        sh \in {None, Some(SoftShadow)}, bg \in Backgrounds}

ShadowConfigs ==
    {[DefaultConfig EXCEPT !.size = sz, !.shadow = Some(sh),
                           !.background_color = bg] :
        sz \in 0 .. 1, sh \in Shadows, bg \in Backgrounds}

MaskConfigs ==
    {[DefaultConfig EXCEPT !.corner_radius = r, !.size = sz, !.padding = p,
                           !.shadow = sh] :
        r \in 1 .. MaxRadius, sz \in 0 .. MaxSize, p \in 0 .. MaxPad,
        sh \in {None, Some(HardShadow)}}

GateConfigs ==
    {[DefaultConfig EXCEPT !.enabled = en, !.only_modes = om, !.size = 1] :
        en \in BOOLEAN, om \in {None} \cup {Some(l) : l \in ModeLists}}

\* a colour whose shades saturate at both ends and whose alpha is not 255
ShadeColor == <<30, 128, 230, 200>>

\* the shaded styles, up to a size whose halves hold more than one ring
ShadeConfigs ==
    {[DefaultConfig EXCEPT !.style = st, !.size = sz, !.color = ShadeColor] :
        st \in {"Groove", "Ridge", "Inset", "Outset"}, sz \in 0 .. MaxSize + 2}

\* dashed and dotted borders, drawn around a source with long edges
DashConfigs ==
    {[DefaultConfig EXCEPT !.style = st, !.size = sz] :
        st \in {"Dashed", "Dotted"}, sz \in 1 .. MaxSize}

\* the scenarios of section 8 of the specification: a 100x100 white source
ScenarioConfigs ==
    {DefaultConfig, [DefaultConfig EXCEPT !.corner_radius = 10]}

SourcePixel(x, y) ==
    <<100 + x, 150 + y, 200, IF (x + y) % 2 = 0 THEN 255 ELSE 128>>

SourceImage(w, h) ==
    [width |-> w, height |-> h,
     px |-> [q \in Coords(w, h) |-> SourcePixel(q[1], q[2])]]

SourceImages == {SourceImage(w, h) : w \in {1, MaxSrc}, h \in {1, MaxSrc}}

\* a source whose edges are longer than one dash period
LongImage == SourceImage(MaxEdge, MaxEdge)

WhiteImage == from_pixel(100, 100, White)

Scenarios ==
    {[config |-> c, capture |-> [mode |-> "Region", image |-> i]] :
        c \in StyleConfigs \cup ShadowConfigs \cup MaskConfigs \cup ShadeConfigs,
        i \in SourceImages}
    \cup
    {[config |-> c, capture |-> [mode |-> m, image |-> SourceImage(1, 1)]] :
        c \in GateConfigs, m \in CaptureTypes}
    \cup
    {[config |-> c, capture |-> [mode |-> "Region", image |-> LongImage]] :
        c \in DashConfigs}
    \cup
    {[config |-> c, capture |-> [mode |-> "Window", image |-> WhiteImage]] :
        c \in ScenarioConfigs}

NoImage == from_pixel(0, 0, Transparent)

OtherEvents == {"PreCapture", "PostSave", "PostUpload"}

(***************************************************************************)
(* The plugin: with_config, then on_event for every event of the host.     *)
(***************************************************************************)
\* the locals of apply_border are tracked only by the wide-integer specification
NoDims == <<>>

\* the Sounds and the Hotbar plugin are not constructed
NoSounds == <<>>
NoHotbar == <<>>

Init ==
    /\ \E s \in Scenarios : config = s.config /\ source = s.capture
    /\ event = "None"
    /\ pc = "idle"
    /\ canvas = NoImage
    /\ response = "None"
    /\ dims = NoDims
    /\ sounds = NoSounds
    /\ hotbar = NoHotbar

\* on_event, the arm _ => Continue
OnOtherEvent(kind) ==
    /\ pc = "idle"
    /\ event' = kind
    /\ response' = "Continue"
    /\ canvas' = NoImage
    /\ UNCHANGED <<sounds, hotbar, dims, config, source, pc>>

\* on_event, PostCapture with should_process false
OnPostCaptureSkipped ==
    /\ pc = "idle"
    /\ ~should_process(config, source.mode)
    /\ event' = "PostCapture"
    /\ response' = "Continue"
    /\ canvas' = NoImage
    /\ UNCHANGED <<sounds, hotbar, dims, config, source, pc>>

\* on_event, PostCapture: apply_border up to the allocation of the canvas
OnPostCapture ==
    /\ pc = "idle"
    /\ should_process(config, source.mode)
    /\ event' = "PostCapture"
    /\ response' = "Pending"
    /\ canvas' = from_pixel(new_width(config, source.image.width),
                            new_height(config, source.image.height),
                            bg_color(config))
    /\ pc' = "shadow"
    /\ UNCHANGED <<sounds, hotbar, dims, config, source>>

\* apply_border: if let Some(shadow) { draw_shadow }
DrawShadowStep ==
    /\ pc = "shadow"
    /\ canvas' = IF IsSome(config.shadow)
                 THEN draw_shadow(config, canvas, source.image.width,
                                  source.image.height, Unwrap(config.shadow))
                 ELSE canvas
    /\ pc' = "border"
    /\ UNCHANGED <<sounds, hotbar, dims, config, source, event, response>>

\* apply_border: draw_border at the content offset
DrawBorderStep ==
    /\ pc = "border"
    /\ canvas' = draw_border(config, canvas, content_x(config), content_y(config),
                             source.image.width, source.image.height)
    /\ pc' = "copy"
    /\ UNCHANGED <<sounds, hotbar, dims, config, source, event, response>>

\* apply_border: the copy loop
CopyStep ==
    /\ pc = "copy"
    /\ canvas' = copy_image(canvas, source.image, content_x(config), content_y(config))
    /\ pc' = "mask"
    /\ UNCHANGED <<sounds, hotbar, dims, config, source, event, response>>

\* apply_border: the corner mask, then on_event returns ModifiedImage
CornerMaskStep ==
    /\ pc = "mask"
    /\ \/ config.corner_radius = 0 /\ canvas' = canvas
       \/ /\ config.corner_radius > 0
          /\ canvas' = apply_corner_mask(config, canvas, content_x(config),
                                         content_y(config), source.image.width,
                                         source.image.height)
    /\ response' = "ModifiedImage"
    /\ pc' = "idle"
    /\ UNCHANGED <<sounds, hotbar, dims, config, source, event>>

\* apply_corner_mask in a build with overflow checks: the anchor subtraction panics
CornerMaskPanic ==
    /\ pc = "mask"
    /\ config.corner_radius > 0
    /\ mask_underflows(config, content_x(config), content_y(config),
                       source.image.width, source.image.height)
    /\ canvas' = NoImage
    /\ response' = "Panic"
    /\ pc' = "panicked"
    /\ UNCHANGED <<sounds, hotbar, dims, config, source, event>>

Next ==
    \/ \E kind \in OtherEvents : OnOtherEvent(kind)
    \/ OnPostCaptureSkipped
    \/ OnPostCapture
    \/ DrawShadowStep
    \/ DrawBorderStep
    \/ CopyStep
    \/ CornerMaskStep
    \/ CornerMaskPanic

Spec == Init /\ [][Next]_vars

(***************************************************************************)
(* The dimension arithmetic of apply_border over the whole range of u32    *)
(* and i32.  A value is <<hi, lo>>, hi and lo in 0 .. Limb - 1.  `+` and   *)
(* `*` are the plain operators of the source: with overflow checks they    *)
(* panic when the result leaves the type, without them they wrap.  A       *)
(* checked value is [v, overflow]: the wrapped result and whether any      *)
(* operation on the way to it overflowed.                                  *)
(***************************************************************************)
Limb == 65536

u32_lt(a, b) == a[1] < b[1] \/ (a[1] = b[1] /\ a[2] < b[2])

u32_add_overflows(a, b) == a[1] + b[1] + (a[2] + b[2]) \div Limb >= Limb

u32_wrapping_add(a, b) ==
    LET lo == a[2] + b[2]
        hi == a[1] + b[1] + lo \div Limb
    IN  <<hi % Limb, lo % Limb>>

u32_saturating_sub(a, b) ==
    IF u32_lt(a, b)
    THEN <<0, 0>>
    ELSE LET borrow == IF a[2] < b[2] THEN 1 ELSE 0
         IN  <<a[1] - b[1] - borrow, a[2] - b[2] + borrow * Limb>>

\* a / 2
u32_half(a) == <<a[1] \div 2, (a[1] % 2) * (Limb \div 2) + a[2] \div 2>>

\* i32::unsigned_abs of a two's complement value
i32_unsigned_abs(v) ==
    IF v[1] >= Limb \div 2
    THEN u32_wrapping_add(<<Limb - 1 - v[1], Limb - 1 - v[2]>>, <<0, 1>>)
    ELSE v

exact(v) == [v |-> v, overflow |-> FALSE]

\* a + b
u32_add(a, b) ==
    [v |-> u32_wrapping_add(a.v, b.v),
     overflow |-> a.overflow \/ b.overflow \/ u32_add_overflows(a.v, b.v)]

\* a * 2
u32_twice(a) == u32_add(a, a)

\* calculate_shadow_extra
wide_shadow_extra(cfg) ==
    IF IsSome(cfg.shadow)
    THEN LET shadow == Unwrap(cfg.shadow)
             blur == shadow.blur_radius
         IN  <<u32_add(exact(i32_unsigned_abs(shadow.offset_x)), u32_twice(exact(blur))),
               u32_add(exact(i32_unsigned_abs(shadow.offset_y)), u32_twice(exact(blur)))>>
    ELSE <<exact(<<0, 0>>), exact(<<0, 0>>)>>

\* orig + (border + padding) * 2 + shadow_extra
wide_new_size(cfg, orig, shadow_extra) ==
    u32_add(u32_add(exact(orig), u32_twice(u32_add(exact(cfg.size), exact(cfg.padding)))),
            exact(shadow_extra))

\* border + padding + shadow_extra.saturating_sub(shadow_extra / 2)
wide_content(cfg, shadow_extra) ==
    u32_add(u32_add(exact(cfg.size), exact(cfg.padding)),
            exact(u32_saturating_sub(shadow_extra, u32_half(shadow_extra))))

\* the ring coordinates of iteration i on one axis: c.saturating_sub(i + 1) and c + len + i
wide_ring(c, len, i) ==
    [lo |-> exact(u32_saturating_sub(c, u32_wrapping_add(i, <<0, 1>>))),
     hi |-> u32_add(u32_add(exact(c), exact(len)), exact(i))]

U32_MAX == <<Limb - 1, Limb - 1>>
I32_MAX == <<Limb \div 2 - 1, Limb - 1>>
I32_MIN == <<Limb \div 2, 0>>

\* u32 values: 0, 1, 3, 100, 2^31 and u32::MAX for sizes, paddings and lengths
WideSizes == {<<0, 0>>, <<0, 1>>, <<0, 3>>, I32_MIN, U32_MAX}
WidePaddings == {<<0, 0>>, <<0, 1>>, U32_MAX}
WideLengths == {<<0, 1>>, <<0, 100>>, I32_MIN}

\* i32 offsets 0, -1, i32::MIN and i32::MAX; u32 blur radii 0, 1 and 2^31
WideShadows ==
    {[offset_x |-> ox, offset_y |-> <<0, 0>>, blur_radius |-> b, color |-> ShadowColor] :
        ox \in {<<0, 0>>, U32_MAX, I32_MIN, I32_MAX}, b \in {<<0, 0>>, <<0, 1>>, I32_MIN}}

WideConfigs ==
    {[DefaultConfig EXCEPT !.size = sz, !.padding = p, !.shadow = sh] :
        sz \in WideSizes, p \in WidePaddings,
        sh \in {None} \cup {Some(w) : w \in WideShadows}}

Unset == <<>>

\* with_config, the build profile (overflow-checks on or off) and the capture
InitDims ==
    /\ config \in WideConfigs
    /\ \E w \in WideLengths :
           source = [mode |-> "Region", image |-> [width |-> w, height |-> <<0, 1>>]]
    /\ event = "None"
    /\ pc = "idle"
    /\ canvas = NoImage
    /\ response = "None"
    /\ \E checks \in BOOLEAN :
           dims = [overflow_checks |-> checks, shadow_extra |-> Unset,
                   new_width |-> Unset, new_height |-> Unset,
                   content_x |-> Unset, content_y |-> Unset, ring |-> Unset]
    /\ sounds = NoSounds
    /\ hotbar = NoHotbar

\* a statement whose arithmetic overflowed panics under overflow checks and goes on
\* with the wrapped values otherwise
Proceed(overflow, next_pc, next_dims) ==
    IF dims.overflow_checks /\ overflow
    THEN pc' = "panicked" /\ response' = "Panic" /\ dims' = dims
    ELSE pc' = next_pc /\ response' = "Pending" /\ dims' = next_dims

\* on_event(PostCapture), apply_border: let shadow_extra = calculate_shadow_extra()
DimsShadowExtra ==
    /\ pc = "idle"
    /\ event' = "PostCapture"
    /\ LET e == wide_shadow_extra(config)
       IN  Proceed(e[1].overflow \/ e[2].overflow, "size",
                   [dims EXCEPT !.shadow_extra = <<e[1].v, e[2].v>>])
    /\ UNCHANGED <<sounds, hotbar, config, source, canvas>>

\* apply_border: let new_width, let new_height.  from_pixel allocates
\* new_width * new_height pixels: the handler is followed further for canvases
\* below 2^16 on both sides
DimsNewSize ==
    /\ pc = "size"
    /\ LET w == wide_new_size(config, source.image.width, dims.shadow_extra[1])
           h == wide_new_size(config, source.image.height, dims.shadow_extra[2])
       IN  Proceed(w.overflow \/ h.overflow,
                   IF w.v[1] = 0 /\ h.v[1] = 0 THEN "shadow" ELSE "allocating",
                   [dims EXCEPT !.new_width = w.v, !.new_height = h.v])
    /\ UNCHANGED <<sounds, hotbar, config, source, event, canvas>>

\* apply_border: draw_shadow.  Its own i32 arithmetic is not followed: a configuration
\* with a shadow is followed further only without overflow checks, where it wraps
DimsShadow ==
    /\ pc = "shadow"
    /\ pc' = IF IsSome(config.shadow) /\ dims.overflow_checks
             THEN "shadowing" ELSE "content"
    /\ UNCHANGED <<sounds, hotbar, config, source, event, canvas, response, dims>>

\* apply_border: let content_x, let content_y
DimsContent ==
    /\ pc = "content"
    /\ LET x == wide_content(config, dims.shadow_extra[1])
           y == wide_content(config, dims.shadow_extra[2])
       IN  Proceed(x.overflow \/ y.overflow, "ring",
                   [dims EXCEPT !.content_x = x.v, !.content_y = y.v])
    /\ UNCHANGED <<sounds, hotbar, config, source, event, canvas>>

\* draw_border, draw_solid_border: x1, y1, x2, y2 of the first or the last iteration
DimsRing(i) ==
    /\ pc = "ring"
    /\ u32_lt(i, config.size)
    /\ LET x == wide_ring(dims.content_x, source.image.width, i)
           y == wide_ring(dims.content_y, source.image.height, i)
       IN  Proceed(x.hi.overflow \/ y.hi.overflow, "drawing",
                   [dims EXCEPT !.ring = [x1 |-> x.lo.v, y1 |-> y.lo.v,
                                          x2 |-> x.hi.v, y2 |-> y.hi.v]])
    /\ UNCHANGED <<sounds, hotbar, config, source, event, canvas>>

NextDims ==
    \/ DimsShadowExtra
    \/ DimsNewSize
    \/ DimsShadow
    \/ DimsContent
    \/ \E i \in {<<0, 0>>, u32_saturating_sub(config.size, <<0, 1>>)} : DimsRing(i)

SpecDims == InitDims /\ [][NextDims]_vars

(***************************************************************************)
(* The Sounds plugin.  `sounds` holds the plugin (config, sound_sender,    *)
(* sound_thread), the mpsc channel between the host thread and the worker *)
(* thread, the worker's position, the files that exist, and the position   *)
(* of the host thread in the plugin's methods.  Volumes are in percent.    *)
(* The worker holds the Receiver until it exits; a send fails, and is      *)
(* ignored, once the Receiver is dropped; recv fails once the channel is   *)
(* empty and the Sender is dropped.                                        *)
(***************************************************************************)
SoundFiles == {"capture.wav", "save.wav", "upload.wav"}

\* SoundsConfig::default, with the volume and the mode filter of post_capture varied
SoundsConfigs ==
    {[enabled |-> en, volume |-> vol,
      sounds |-> [pre_capture |-> None,
                  post_capture |-> Some([path |-> "capture.wav", volume |-> None,
                                         only_modes |-> om]),
                  post_save |-> Some([path |-> "save.wav", volume |-> Some(80),
                                      only_modes |-> None]),
                  post_upload |-> Some([path |-> "upload.wav", volume |-> None,
                                        only_modes |-> None])]] :
        en \in BOOLEAN, vol \in {100, 250},
        om \in {None, Some(<< <<"G", "i", "f">> >>)}}

\* f32::clamp(0.0, 2.0)
clamp_volume(v) == IF v < 0 THEN 0 ELSE IF v > 200 THEN 200 ELSE v

\* play_sound up to the send: the command it sends, if any
play_sound(cfg, files, entry, mode) ==
    IF ~cfg.enabled
    THEN None
    ELSE IF /\ IsSome(entry.only_modes) /\ IsSome(mode)
            /\ ~\E i \in DOMAIN Unwrap(entry.only_modes) :
                   to_lowercase(Unwrap(entry.only_modes)[i]) = mode_str(Unwrap(mode))
    THEN None
    ELSE IF entry.path \notin files
    THEN None
    ELSE LET volume == ((IF IsSome(entry.volume) THEN Unwrap(entry.volume) ELSE 100)
                           * cfg.volume) \div 100
         IN  Some([kind |-> "Play", path |-> entry.path,
                   volume |-> clamp_volume(volume)])

\* mpsc::Sender::send on the plugin's channel: Err, ignored, once the worker has
\* dropped the Receiver
send(s, cmd) ==
    IF s.worker = "exited" THEN s ELSE [s EXCEPT !.channel = Append(@, cmd)]

\* stop_sound_thread, the first `if let`: neither taking nor sending
take_sender_skipped(s) == s

\* stop_sound_thread, the first `if let`: take the Sender, send Shutdown, drop it
take_sender(s) ==
    IF IsSome(s.sound_sender)
    THEN [send(s, [kind |-> "Shutdown"]) EXCEPT !.sound_sender = None]
    ELSE s

\* on_event: the entry of the event and the mode passed to play_sound
event_entry(cfg, kind) ==
    CASE kind = "PreCapture" -> cfg.sounds.pre_capture
      [] kind = "PostCapture" -> cfg.sounds.post_capture
      [] kind = "PostSave" -> cfg.sounds.post_save
      [] kind = "PostUpload" -> cfg.sounds.post_upload
      [] OTHER -> None

event_mode(kind, mode) ==
    IF kind \in {"PreCapture", "PostCapture"} THEN Some(mode) ELSE None

SoundEventKinds == {"PreCapture", "PostCapture", "PostSave", "PostUpload", "Other"}

\* with_config: no sender, no thread
InitSounds ==
    /\ config = DefaultConfig
    /\ source = [mode |-> "Region", image |-> SourceImage(1, 1)]
    /\ event = "None"
    /\ pc = "idle"
    /\ canvas = NoImage
    /\ response = "None"
    /\ dims = NoDims
    /\ hotbar = NoHotbar
    /\ \E cfg \in SoundsConfigs, files \in {SoundFiles, {"capture.wav"}} :
           sounds = [config |-> cfg, files |-> files,
                     sound_sender |-> None, sound_thread |-> None,
                     channel |-> <<>>, worker |-> "none", handled |-> <<>>,
                     host |-> "idle", caller |-> "none"]

\* on_load: start_sound_thread makes the channel and spawns the worker
SoundsOnLoad ==
    /\ sounds.host = "idle"
    /\ sounds.sound_thread = None
    /\ sounds' = [sounds EXCEPT !.sound_sender = Some("tx"),
                                !.sound_thread = Some("handle"),
                                !.channel = <<>>, !.handled = <<>>,
                                !.worker = "spawned"]
    /\ UNCHANGED <<config, source, event, pc, canvas, response, dims, hotbar>>

\* on_event: play_sound for the entry of the event, then Continue
SoundsOnEvent(kind, mode) ==
    /\ sounds.host = "idle"
    /\ Len(sounds.channel) + Len(sounds.handled) < MaxPlays
    /\ LET entry == event_entry(sounds.config, kind)
           cmd == IF IsSome(entry)
                  THEN play_sound(sounds.config, sounds.files, Unwrap(entry),
                                  event_mode(kind, mode))
                  ELSE None
       IN  sounds' = IF IsSome(cmd) /\ IsSome(sounds.sound_sender)
                     THEN send(sounds, Unwrap(cmd))
                     ELSE sounds
    /\ event' = kind
    /\ response' = "Continue"
    /\ UNCHANGED <<config, source, pc, canvas, dims, hotbar>>

\* on_unload or drop enters stop_sound_thread: the first `if let`
SoundsStop(caller) ==
    /\ sounds.host = "idle"
    /\ sounds' = [take_sender(sounds) EXCEPT !.host = "joining", !.caller = caller]
    /\ UNCHANGED <<config, source, event, pc, canvas, response, dims, hotbar>>

\* stop_sound_thread, the second `if let`: join the worker if there is a handle, then
\* return (on_unload goes on to save_config; after drop the plugin is gone)
SoundsJoin ==
    /\ sounds.host = "joining"
    /\ IsSome(sounds.sound_thread) => sounds.worker = "exited"
    /\ sounds' = [sounds EXCEPT !.sound_thread = None,
                                !.host = IF sounds.caller = "drop"
                                         THEN "dropped" ELSE "idle"]
    /\ UNCHANGED <<config, source, event, pc, canvas, response, dims, hotbar>>

\* the worker: OutputStream::try_default succeeds or fails
WorkerOpenStream(ok) ==
    /\ sounds.worker = "spawned"
    /\ sounds' = [sounds EXCEPT !.worker = IF ok THEN "recv" ELSE "exited"]
    /\ UNCHANGED <<config, source, event, pc, canvas, response, dims, hotbar>>

\* the worker: one turn of `while let Ok(cmd) = rx.recv()`
WorkerRecv ==
    /\ sounds.worker = "recv"
    /\ IF sounds.channel # <<>>
       THEN LET cmd == Head(sounds.channel)
            IN  IF cmd.kind = "Play"
                THEN sounds' = [sounds EXCEPT !.channel = Tail(@),
                                              !.handled = Append(@, cmd)]
                ELSE sounds' = [sounds EXCEPT !.channel = Tail(@),
                                              !.worker = "exited"]
       ELSE /\ sounds.sound_sender = None
            /\ sounds' = [sounds EXCEPT !.worker = "exited"]
    /\ UNCHANGED <<config, source, event, pc, canvas, response, dims, hotbar>>

SoundsHost ==
    \/ SoundsOnLoad
    \/ \E kind \in SoundEventKinds, mode \in {"Gif", "Window"} : SoundsOnEvent(kind, mode)
    \/ \E caller \in {"on_unload", "drop"} : SoundsStop(caller)
    \/ SoundsJoin

SoundsWorker ==
    \/ \E ok \in BOOLEAN : WorkerOpenStream(ok)
    \/ WorkerRecv

NextSounds == SoundsHost \/ SoundsWorker

\* the scheduler runs the worker thread, and a method that was entered runs on
SpecSounds ==
    InitSounds /\ [][NextSounds]_vars /\ WF_vars(SoundsWorker) /\ WF_vars(SoundsJoin)

(***************************************************************************)
(* The Hotbar plugin: start_hotbar spawns a thread that creates the window *)
(* and runs its message loop, stop_hotbar clears `running` and joins it.   *)
(* hotbar.queue is the message queue of the window thread; GetMessageW     *)
(* blocks while it is empty.                                               *)
(***************************************************************************)
WindowMessages == {"WM_PAINT", "WM_LBUTTONDOWN", "WM_DESTROY"}

\* hotbar_wnd_proc: WM_DESTROY calls PostQuitMessage, the other messages post nothing
hotbar_wnd_proc(queue, msg) ==
    IF msg = "WM_DESTROY" THEN Append(queue, "WM_QUIT") ELSE queue

InitHotbar ==
    /\ config = DefaultConfig
    /\ source = [mode |-> "Region", image |-> SourceImage(1, 1)]
    /\ event = "None"
    /\ pc = "idle"
    /\ canvas = NoImage
    /\ response = "None"
    /\ dims = NoDims
    /\ sounds = NoSounds
    /\ \E enabled \in BOOLEAN, windows \in BOOLEAN :
           hotbar = [enabled |-> enabled, windows |-> windows,
                     running |-> FALSE, window_thread |-> None,
                     thread |-> "none", queue |-> <<>>,
                     host |-> "idle", caller |-> "none"]

\* on_load: start_hotbar, which is empty off Windows and returns when not enabled
HotbarOnLoad ==
    /\ hotbar.host = "idle"
    /\ hotbar.window_thread = None
    /\ hotbar' = IF hotbar.windows /\ hotbar.enabled
                 THEN [hotbar EXCEPT !.running = TRUE,
                                     !.window_thread = Some("handle"),
                                     !.thread = "spawned", !.queue = <<>>]
                 ELSE hotbar
    /\ UNCHANGED <<config, source, event, pc, canvas, response, dims, sounds>>

\* on_event: Continue, whatever the event
HotbarOnEvent(kind) ==
    /\ hotbar.host = "idle"
    /\ event' = kind
    /\ response' = "Continue"
    /\ UNCHANGED <<config, source, pc, canvas, dims, sounds, hotbar>>

\* on_unload or drop enters stop_hotbar: running.store(false)
HotbarStop(caller) ==
    /\ hotbar.host = "idle"
    /\ hotbar' = [hotbar EXCEPT !.running = FALSE, !.host = "joining",
                                !.caller = caller]
    /\ UNCHANGED <<config, source, event, pc, canvas, response, dims, sounds>>

\* stop_hotbar, the `if let`: join the window thread if there is a handle, then return
HotbarJoin ==
    /\ hotbar.host = "joining"
    /\ IsSome(hotbar.window_thread) => hotbar.thread = "exited"
    /\ hotbar' = [hotbar EXCEPT !.window_thread = None,
                                !.host = IF hotbar.caller = "drop"
                                         THEN "dropped" ELSE "idle"]
    /\ UNCHANGED <<config, source, event, pc, canvas, response, dims, sounds>>

\* run_hotbar_window up to the loop: GetModuleHandleW or CreateWindowExW may fail
ThreadCreateWindow(ok) ==
    /\ hotbar.thread = "spawned"
    /\ hotbar' = [hotbar EXCEPT !.thread = IF ok THEN "loop" ELSE "exited"]
    /\ UNCHANGED <<config, source, event, pc, canvas, response, dims, sounds>>

\* the loop condition: `while running.load(SeqCst)`
ThreadCheckRunning ==
    /\ hotbar.thread = "loop"
    /\ hotbar' = [hotbar EXCEPT !.thread = IF hotbar.running
                                           THEN "get_message" ELSE "exited"]
    /\ UNCHANGED <<config, source, event, pc, canvas, response, dims, sounds>>

\* the loop body: GetMessageW returns once the queue holds a message, false on
\* WM_QUIT (break), else the message is dispatched to hotbar_wnd_proc
ThreadGetMessage ==
    /\ hotbar.thread = "get_message"
    /\ hotbar.queue # <<>>
    /\ LET msg == Head(hotbar.queue)
       IN  hotbar' = IF msg = "WM_QUIT"
                     THEN [hotbar EXCEPT !.queue = Tail(@), !.thread = "exited"]
                     ELSE [hotbar EXCEPT !.queue = hotbar_wnd_proc(Tail(@), msg),
                                         !.thread = "loop"]
    /\ UNCHANGED <<config, source, event, pc, canvas, response, dims, sounds>>

\* the system or the user posts a message to the window, if and when they do
PostMessage(msg) ==
    /\ hotbar.thread \in {"loop", "get_message"}
    /\ Len(hotbar.queue) < MaxMessages
    /\ hotbar' = [hotbar EXCEPT !.queue = Append(@, msg)]
    /\ UNCHANGED <<config, source, event, pc, canvas, response, dims, sounds>>

HotbarHost ==
    \/ HotbarOnLoad
    \/ \E kind \in SoundEventKinds : HotbarOnEvent(kind)
    \/ \E caller \in {"on_unload", "drop"} : HotbarStop(caller)
    \/ HotbarJoin

HotbarThread ==
    \/ \E ok \in BOOLEAN : ThreadCreateWindow(ok)
    \/ ThreadCheckRunning
    \/ ThreadGetMessage

HotbarEnvironment == \E msg \in WindowMessages : PostMessage(msg)

NextHotbar == HotbarHost \/ HotbarThread \/ HotbarEnvironment

\* the scheduler runs the window thread, and a method that was entered runs on;
\* nothing obliges anyone to send the window a message
SpecHotbar ==
    InitHotbar /\ [][NextHotbar]_vars /\ WF_vars(HotbarThread) /\ WF_vars(HotbarJoin)

(***************************************************************************)
(* Properties.                                                             *)
(***************************************************************************)
Returned == pc = "idle" /\ response = "ModifiedImage"

\* the shadow extent of the specification on one axis
Extent(cfg, offset) ==
    IF IsSome(cfg.shadow)
    THEN (IF offset < 0 THEN -offset ELSE offset) + 2 * Unwrap(cfg.shadow).blur_radius
    ELSE 0

ExtentX(cfg) == Extent(cfg, IF IsSome(cfg.shadow) THEN Unwrap(cfg.shadow).offset_x ELSE 0)
ExtentY(cfg) == Extent(cfg, IF IsSome(cfg.shadow) THEN Unwrap(cfg.shadow).offset_y ELSE 0)

\* the content offset of the specification
ContentX(cfg) == cfg.size + cfg.padding + (ExtentX(cfg) - ExtentX(cfg) \div 2)
ContentY(cfg) == cfg.size + cfg.padding + (ExtentY(cfg) - ExtentY(cfg) \div 2)

\* C1: the canvas apply_border returns is src_w + 2*(size + padding) + ext_x wide and
\* src_h + 2*(size + padding) + ext_y high, ext = |shadow.offset| + 2*blur_radius on
\* that axis with a shadow and 0 without; 100x100 with size 3 gives 106x106.
C1_CanvasSize ==
    Returned =>
        /\ canvas.width = source.image.width + 2 * (config.size + config.padding)
                            + ExtentX(config)
        /\ canvas.height = source.image.height + 2 * (config.size + config.padding)
                            + ExtentY(config)
        /\ DOMAIN canvas.px = Coords(canvas.width, canvas.height)
        /\ (config = DefaultConfig /\ source.image = WhiteImage)
               => canvas.width = 106 /\ canvas.height = 106

C1_Witness ==
    /\ Returned
    /\ IsSome(config.shadow)
    /\ Unwrap(config.shadow).offset_y < 0
    /\ Unwrap(config.shadow).blur_radius > 0
    /\ config.padding > 0
    /\ config.size > 0

\* C2: with corner_radius = 0, whatever the style, size, padding, background and
\* shadow, every source pixel (x, y) is in the returned canvas, unchanged, at
\* (content_x + x, content_y + y).
C2_ContentFidelity ==
    (Returned /\ config.corner_radius = 0) =>
        \A q \in DOMAIN source.image.px :
            LET d == <<ContentX(config) + q[1], ContentY(config) + q[2]>>
            IN  d \in DOMAIN canvas.px /\ canvas.px[d] = source.image.px[q]

C2_Witness ==
    /\ Returned
    /\ config.corner_radius = 0
    /\ config.style = "Groove"
    /\ config.size > 1
    /\ IsSome(config.shadow)
    /\ IsSome(config.background_color)
    /\ source.image.width > 1
    /\ canvas.px[<<ContentX(config) + 1, ContentY(config)>>] = SourcePixel(1, 0)

\* the bordered frame: the content rectangle grown by size on every side
FrameX0(cfg) == ContentX(cfg) - cfg.size
FrameY0(cfg) == ContentY(cfg) - cfg.size
FrameX1(cfg) == ContentX(cfg) + source.image.width + cfg.size - 1
FrameY1(cfg) == ContentY(cfg) + source.image.height + cfg.size - 1

InFrame(cfg, q) ==
    /\ q[1] >= FrameX0(cfg) /\ q[1] <= FrameX1(cfg)
    /\ q[2] >= FrameY0(cfg) /\ q[2] <= FrameY1(cfg)

ScenarioRounded ==
    /\ config = [DefaultConfig EXCEPT !.corner_radius = 10]
    /\ source.image = WhiteImage

\* C3: 100x100 opaque white source, size 3, Solid, color [60,60,60,255], padding 0,
\* no shadow, corner_radius 10: the pixel (0,0) of the returned canvas has alpha 0.
C3_CornerPixelCleared ==
    (Returned /\ ScenarioRounded) => canvas.px[<<0, 0>>][4] = 0

\* twice the distance, on one axis, from the centre of pixel v to the centre of the
\* quarter circle of the nearer corner of the frame lo .. hi; positive inside the
\* corner square
CornerOffset2(v, lo, hi, radius) ==
    IF 2 * v < lo + hi + 1
    THEN 2 * (lo + radius - v) - 1
    ELSE 2 * (v - hi + radius) - 1

\* q is farther than corner_radius from the centre of the nearest quarter circle
BeyondArc(cfg, q) ==
    LET hx == CornerOffset2(q[1], FrameX0(cfg), FrameX1(cfg), cfg.corner_radius)
        hy == CornerOffset2(q[2], FrameY0(cfg), FrameY1(cfg), cfg.corner_radius)
    IN  /\ hx > 0 /\ hy > 0
        /\ hx * hx + hy * hy > 4 * cfg.corner_radius * cfg.corner_radius

\* C4: the corner mask clears only pixels outside the rounded rectangle of radius
\* corner_radius inscribed in the bordered frame: every pixel it changes is farther
\* than corner_radius from the centre of the nearest corner's quarter circle.
C4_MaskOutsideRoundedRect ==
    [][(pc = "mask" /\ pc' = "idle") =>
          \A q \in DOMAIN canvas.px :
              canvas'.px[q] # canvas.px[q] =>
                  (~InFrame(config, q) \/ BeyondArc(config, q))]_vars

\* the pixels the returned canvas had cleared at corner k
Cleared(k) ==
    corner_cleared(config, canvas, content_x(config), content_y(config),
                   source.image.width, source.image.height, k)

MirrorX(S) == {<<FrameX0(config) + FrameX1(config) - q[1], q[2]>> : q \in S}
MirrorY(S) == {<<q[1], FrameY0(config) + FrameY1(config) - q[2]>> : q \in S}

CornersMirrored ==
    /\ Cleared(2) = MirrorX(Cleared(1))
    /\ Cleared(3) = MirrorY(Cleared(1))
    /\ Cleared(4) = MirrorX(MirrorY(Cleared(1)))
    /\ \A k \in 1 .. 4 : \A q \in Cleared(k) : canvas.px[q] = Transparent

SquareMasked ==
    /\ Returned
    /\ config.corner_radius > 0
    /\ source.image.width = source.image.height

\* C5 as stated: for a square content area and any corner_radius, the sets cleared
\* at the four corners are mirror images of each other under the flips of the frame.
C5_MaskSymmetry == SquareMasked => CornersMirrored

\* C5, amended: for a square content area and a corner_radius no larger than the
\* side of the bordered frame (content side + 2*size), the sets cleared at the four
\* corners are mirror images of each other under the flips of the frame.
C5_MaskSymmetryInFrame ==
    (SquareMasked /\ config.corner_radius <= source.image.width + 2 * config.size)
        => CornersMirrored

C5_Witness ==
    /\ SquareMasked
    /\ config.corner_radius <= source.image.width + 2 * config.size
    /\ IsSome(config.shadow)
    /\ Cleared(1) # {}
    /\ Cleared(4) # Cleared(1)

\* the mode names of the specification
ModeName(mode) ==
    CASE mode = "FullScreen" -> <<"f", "u", "l", "l", "s", "c", "r", "e", "e", "n">>
      [] mode = "Window" -> <<"w", "i", "n", "d", "o", "w">>
      [] mode = "Region" -> <<"r", "e", "g", "i", "o", "n">>
      [] mode = "Gif" -> <<"g", "i", "f">>

ModeMatches(cfg, mode) ==
    \/ cfg.only_modes = None
    \/ /\ cfg.only_modes # None
       /\ \E i \in 1 .. Len(cfg.only_modes[1]) :
              to_lowercase(cfg.only_modes[1][i]) = ModeName(mode)

HandlerReturned == pc = "idle" /\ event # "None"

\* C6: for an enabled config should_process(mode) is true for every mode when
\* only_modes is absent and, when it is present, exactly when some entry, lower-cased,
\* equals the mode's name (an empty list matches no mode); on_event(PostCapture)
\* returns ModifiedImage exactly when should_process is true and Continue otherwise;
\* every other event returns Continue.
C6_ModeGating ==
    /\ config.enabled =>
           \A mode \in CaptureTypes :
               should_process(config, mode) <=> ModeMatches(config, mode)
    /\ (config.enabled /\ config.only_modes = Some(<<>>)) =>
           \A mode \in CaptureTypes : ~should_process(config, mode)
    /\ (HandlerReturned /\ config.enabled /\ event = "PostCapture") =>
           response = IF ModeMatches(config, source.mode)
                      THEN "ModifiedImage" ELSE "Continue"
    /\ (HandlerReturned /\ event # "PostCapture") => response = "Continue"

C6_Witness ==
    /\ HandlerReturned
    /\ event = "PostCapture"
    /\ response = "ModifiedImage"
    /\ source.mode = "Gif"
    /\ config.only_modes = Some(<< <<"f", "u", "l", "l">>, <<"G", "i", "f">> >>)

\* C7: with enabled = false on_event returns Continue for every event, capture mode
\* and only_modes, apply_border is never entered (no canvas is allocated, the
\* handler stays idle) and the config is left unchanged.
C7_DisabledNoOp ==
    [][~config.enabled =>
          /\ response' = "Continue"
          /\ pc' = "idle"
          /\ canvas' = NoImage
          /\ config' = config]_vars

C7_Witness ==
    /\ ~config.enabled
    /\ HandlerReturned
    /\ event = "PostCapture"
    /\ response = "Continue"
    /\ source.mode = "Window"
    /\ config.only_modes = Some(<< <<"W", "I", "N", "D", "O", "W">> >>)

\* the ring a canvas pixel lies on, counted outward from the content edge: 0 is the
\* ring touching the content, -1 and below is the content itself
RingOf(cfg, q) ==
    LET left == ContentX(cfg) - q[1]
        right == q[1] - (ContentX(cfg) + source.image.width - 1)
        top == ContentY(cfg) - q[2]
        bottom == q[2] - (ContentY(cfg) + source.image.height - 1)
        Max(a, b) == IF a > b THEN a ELSE b
    IN  Max(Max(left, right), Max(top, bottom)) - 1

DoubleInner(size) == size \div 3
DoubleGap(size) == size - 2 * (size \div 3)

\* C8: for style Double, inner = outer = size/3 and gap = size - inner - outer, so
\* inner + gap + outer = size (9 gives 3/3/3); the border renderer paints rings
\* [0, inner) and [inner + gap, size) with color and does not write rings
\* [inner, inner + gap).
C8_DoubleBorder ==
    [][(pc = "border" /\ config.style = "Double") =>
          /\ double_widths(9) = [outer_width |-> 3, inner_width |-> 3, gap |-> 3]
          /\ double_widths(config.size).inner_width = DoubleInner(config.size)
          /\ double_widths(config.size).outer_width = DoubleInner(config.size)
          /\ double_widths(config.size).gap = DoubleGap(config.size)
          /\ \A q \in DOMAIN canvas.px :
                LET i == RingOf(config, q)
                IN  IF /\ i >= 0 /\ i < config.size
                       /\ (i < DoubleInner(config.size)
                             \/ i >= DoubleInner(config.size) + DoubleGap(config.size))
                    THEN canvas'.px[q] = config.color
                    ELSE canvas'.px[q] = canvas.px[q]]_vars

C8_Witness ==
    /\ pc = "copy"
    /\ config.style = "Double"
    /\ config.size = 3
    /\ canvas.px[<<ContentX(config) - 1, ContentY(config)>>] = config.color
    /\ canvas.px[<<ContentX(config) - 2, ContentY(config)>>] # config.color
    /\ canvas.px[<<ContentX(config) - 3, ContentY(config)>>] = config.color

\* the shadow-anchored content rectangle and the squared distance of q from it
ShadowX(cfg) == ContentX(cfg) + Unwrap(cfg.shadow).offset_x
ShadowY(cfg) == ContentY(cfg) + Unwrap(cfg.shadow).offset_y

Outside(v, lo, hi) == IF v < lo THEN lo - v ELSE IF v > hi THEN v - hi ELSE 0

ShadowDist2(cfg, q) ==
    LET dx == Outside(q[1], ShadowX(cfg), ShadowX(cfg) + source.image.width - 1)
        dy == Outside(q[2], ShadowY(cfg), ShadowY(cfg) + source.image.height - 1)
    IN  dx * dx + dy * dy

ShadowDrawn == pc = "border" /\ IsSome(config.shadow)

Footprint ==
    shadow_footprint(config, canvas, source.image.width, source.image.height,
                     Unwrap(config.shadow))

\* C9: for blur_radius = b > 0, draw_shadow composites no pixel whose distance from
\* the shadow-anchored content rectangle is greater than b, and every pixel it
\* changes is within distance b of that rectangle.
C9_ShadowBounded ==
    (ShadowDrawn /\ Unwrap(config.shadow).blur_radius > 0) =>
        LET b == Unwrap(config.shadow).blur_radius
            composited == Footprint
        IN  \A q \in DOMAIN canvas.px :
                (q \in composited \/ canvas.px[q] # bg_color(config))
                    => ShadowDist2(config, q) <= b * b

C9_Witness ==
    /\ ShadowDrawn
    /\ Unwrap(config.shadow).blur_radius = 2
    /\ \E q \in Footprint : ShadowDist2(config, q) = 4 /\ canvas.px[q] = bg_color(config)
    /\ \E q \in Footprint : ShadowDist2(config, q) = 2 /\ canvas.px[q] # bg_color(config)
    /\ \E q \in DOMAIN canvas.px : ShadowDist2(config, q) = 5 /\ q \notin Footprint

\* the squared distances at which the shadow is composited, and the alpha assigned
FootprintDist2 == {ShadowDist2(config, q) : q \in Footprint}

AlphaAt(n) ==
    shadow_alpha(Unwrap(config.shadow).color[4], Unwrap(config.shadow).blur_radius, n)

\* C10 as stated: for blur_radius = b > 0 the 8-bit alpha assigned strictly decreases
\* as the distance grows from 0 to b.
C10_StrictFalloff ==
    (ShadowDrawn /\ Unwrap(config.shadow).blur_radius > 0) =>
        LET alpha == [n \in FootprintDist2 |-> AlphaAt(n)]
        IN  \A n1, n2 \in DOMAIN alpha : n1 < n2 => alpha[n1] > alpha[n2]

\* C10, amended: for blur_radius = b > 0 the 8-bit alpha assigned never increases as
\* the distance grows from 0 to b (the truncation to an integer gives equal alphas
\* at different distances); it is the shadow alpha at distance 0 and 0 at distance b.
C10_MonotoneFalloff ==
    (ShadowDrawn /\ Unwrap(config.shadow).blur_radius > 0) =>
        LET b == Unwrap(config.shadow).blur_radius
            alpha == [n \in FootprintDist2 |-> AlphaAt(n)]
        IN  /\ \A n1, n2 \in DOMAIN alpha : n1 < n2 => alpha[n1] >= alpha[n2]
            /\ AlphaAt(0) = Unwrap(config.shadow).color[4]
            /\ AlphaAt(b * b) = 0
            /\ config.background_color = None =>
                   \A q \in Footprint : canvas.px[q][4] = alpha[ShadowDist2(config, q)]

C10_Witness ==
    /\ ShadowDrawn
    /\ Unwrap(config.shadow).blur_radius = 3
    /\ {0, 1, 8, 9} \subseteq FootprintDist2
    /\ AlphaAt(0) > AlphaAt(1)
    /\ AlphaAt(8) = AlphaAt(9)

\* the canvas beneath the border and the content: the background with the shadow
\* composited over it
Underlay ==
    LET blank == from_pixel(canvas.width, canvas.height, bg_color(config))
    IN  IF IsSome(config.shadow)
        THEN draw_shadow(config, blank, source.image.width, source.image.height,
                         Unwrap(config.shadow))
        ELSE blank

\* C11: padding is a gap between the source image and the border: for padding p > 0
\* and size > 0 the p rings immediately around the content rectangle hold the
\* background colour (or shadow over background) in the returned canvas, and the
\* border rings begin only beyond them (rings [p, p + size) for Solid).
C11_PaddingGap ==
    (Returned /\ config.corner_radius = 0 /\ config.padding > 0 /\ config.size > 0) =>
        LET under == Underlay
        IN  \A q \in DOMAIN canvas.px :
                LET i == RingOf(config, q)
                IN  /\ (i >= 0 /\ i < config.padding) => canvas.px[q] = under.px[q]
                    /\ (config.style = "Solid" /\ i >= config.padding
                          /\ i < config.padding + config.size)
                           => canvas.px[q] = config.color

\* a >= b for two u32 values
AtLeast(a, b) == ~u32_lt(a, b)

\* C12: no dimension arithmetic can overflow or underflow its integer width: for every
\* source size, size, padding, offset and blur_radius of their types the shadow
\* extent, the canvas width and height, the content offset and the ring coordinates
\* stay in range (they saturate or clamp rather than wrap or trap).  So no step
\* panics, and every sum of unsigned terms is at least each of its terms.
C12_NoOverflow ==
    /\ pc # "panicked"
    /\ (dims.shadow_extra # Unset /\ IsSome(config.shadow)) =>
           /\ AtLeast(dims.shadow_extra[1], Unwrap(config.shadow).blur_radius)
           /\ AtLeast(dims.shadow_extra[2], Unwrap(config.shadow).blur_radius)
    /\ dims.new_width # Unset =>
           /\ AtLeast(dims.new_width, source.image.width)
           /\ AtLeast(dims.new_width, config.size)
           /\ AtLeast(dims.new_width, config.padding)
           /\ AtLeast(dims.new_height, source.image.height)
           /\ AtLeast(dims.new_height, config.size)
    /\ dims.content_x # Unset =>
           /\ AtLeast(dims.content_x, config.size)
           /\ AtLeast(dims.content_x, config.padding)
           /\ AtLeast(dims.content_y, config.size)
    /\ dims.ring # Unset =>
           /\ AtLeast(dims.ring.x2, dims.content_x)
           /\ AtLeast(dims.ring.x2, source.image.width)
           /\ AtLeast(dims.ring.y2, dims.content_y)

\* C13: a degenerate corner radius never fails: for every corner_radius > 0, also
\* larger than size and larger than content_x + content_w + size, apply_corner_mask
\* completes with a well-defined canvas; the anchors cx + cw + border - radius and
\* cy + ch + border - radius never go below zero, nothing traps, and every write
\* stays inside the canvas.
C13_DegenerateRadius ==
    /\ pc # "panicked"
    /\ (pc = "mask" /\ config.corner_radius > 0) =>
           /\ ContentX(config) + source.image.width + config.size
                  - config.corner_radius >= 0
           /\ ContentY(config) + source.image.height + config.size
                  - config.corner_radius >= 0
    /\ (Returned /\ config.corner_radius > 0) =>
           DOMAIN canvas.px = Coords(canvas.width, canvas.height)

\* C14: border rendering writes only inside the frame band: for every style and
\* size draw_border changes no pixel inside the content rectangle and no pixel
\* farther than size from its edge; with size = 0 it changes no pixel at all.
C14_BorderInBand ==
    [][pc = "border" =>
          /\ \A q \in DOMAIN canvas.px :
                 (RingOf(config, q) < 0 \/ RingOf(config, q) >= config.size)
                     => canvas'.px[q] = canvas.px[q]
          /\ config.size = 0 => canvas' = canvas]_vars

C14_Witness ==
    /\ pc = "copy"
    /\ config.size = 1
    /\ IsSome(config.shadow)
    /\ Unwrap(config.shadow).blur_radius = 3
    /\ \E q \in DOMAIN canvas.px : RingOf(config, q) = 0 /\ canvas.px[q] = config.color
    /\ \E q \in DOMAIN canvas.px :
           RingOf(config, q) = 1 /\ canvas.px[q] = Underlay.px[q]
                                 /\ canvas.px[q] # bg_color(config)
    /\ \A q \in DOMAIN canvas.px :
           RingOf(config, q) < 0 => canvas.px[q] = Underlay.px[q]
                                       /\ canvas.px[q] # bg_color(config)

\* C15: the shadow lies beneath the border and the content: in the returned canvas
\* (corner_radius = 0) every pixel of a Solid border ring equals the border colour
\* exactly and every content pixel equals its source pixel, also where the shadow
\* footprint covers them; the shadow shows only on pixels that neither the border
\* nor the content writes, which hold the shadow over the background.
C15_ShadowBeneath ==
    (Returned /\ config.corner_radius = 0 /\ IsSome(config.shadow)) =>
        LET under == Underlay
        IN  \A q \in DOMAIN canvas.px :
                LET i == RingOf(config, q)
                IN  /\ i < 0 => canvas.px[q] =
                           source.image.px[<<q[1] - ContentX(config),
                                             q[2] - ContentY(config)>>]
                    /\ (config.style = "Solid" /\ i >= 0 /\ i < config.size)
                           => canvas.px[q] = config.color
                    /\ i >= config.size => canvas.px[q] = under.px[q]

C15_Witness ==
    /\ Returned
    /\ config.corner_radius = 0
    /\ config.style = "Solid"
    /\ config.size = 1
    /\ IsSome(config.shadow)
    /\ \E q \in DOMAIN canvas.px :
           /\ RingOf(config, q) = 0
           /\ q \in Footprint
           /\ Underlay.px[q] # bg_color(config)
           /\ canvas.px[q] = config.color
    /\ \E q \in DOMAIN canvas.px :
           /\ RingOf(config, q) < 0
           /\ Underlay.px[q] # bg_color(config)
           /\ canvas.px[q] # Underlay.px[q]
    /\ \E q \in DOMAIN canvas.px :
           /\ RingOf(config, q) = 1
           /\ canvas.px[q] # bg_color(config)

\* C16: the shadow extent added to the canvas accommodates the shadow: for every
\* configuration with a shadow, every pixel of the shadow-anchored content rectangle
\* expanded by blur_radius lies inside the canvas, so the bounds check of draw_shadow
\* drops no shadow pixel.
C16_ShadowFits ==
    ShadowDrawn =>
        LET b == Unwrap(config.shadow).blur_radius
        IN  \A x \in ShadowX(config) - b .. ShadowX(config) + source.image.width - 1 + b :
                \A y \in ShadowY(config) - b
                           .. ShadowY(config) + source.image.height - 1 + b :
                    <<x, y>> \in DOMAIN canvas.px

\* the border has been drawn and nothing drawn over it yet
BorderDrawn == pc = "copy"

\* the colour and its two shades, as the specification derives them
Clamp(v) == IF v < 0 THEN 0 ELSE IF v > 255 THEN 255 ELSE v
Light(c) == <<Clamp(c[1] + 60), Clamp(c[2] + 60), Clamp(c[3] + 60), c[4]>>
Dark(c) == <<Clamp(c[1] - 60), Clamp(c[2] - 60), Clamp(c[3] - 60), c[4]>>

\* C17: ring coverage: for the styles Solid, Groove, Ridge, Inset and Outset and
\* every size s >= 1 the border renderer overwrites every pixel of every ring i in
\* [0, s) with the colour or one of its shades, so the painted frame is exactly s
\* pixels thick, for odd and for even s.
C17_RingCoverage ==
    (BorderDrawn /\ config.size >= 1
       /\ config.style \in {"Solid", "Groove", "Ridge", "Inset", "Outset"}) =>
        \A q \in DOMAIN canvas.px :
            (RingOf(config, q) >= 0 /\ RingOf(config, q) < config.size)
                => canvas.px[q] \in {config.color, Light(config.color), Dark(config.color)}

\* the first coordinates of ring i and the on and off lengths of the specification
RingX1(cfg, i) == ContentX(cfg) - (i + 1)
RingY1(cfg, i) == ContentY(cfg) - (i + 1)
RingX2(cfg, i) == ContentX(cfg) + source.image.width + i
RingY2(cfg, i) == ContentY(cfg) + source.image.height + i

DashOn(cfg) == IF cfg.style = "Dashed" THEN 10 ELSE 2
DashOff(cfg) == IF cfg.style = "Dashed" THEN 5 ELSE 2

\* q lies on the top or bottom edge of its ring, or on the left or right one, and
\* is no corner of it
OnHorizontalEdge(cfg, q) ==
    LET i == RingOf(cfg, q)
    IN  /\ q[2] \in {RingY1(cfg, i), RingY2(cfg, i)}
        /\ q[1] > RingX1(cfg, i) /\ q[1] < RingX2(cfg, i)

OnVerticalEdge(cfg, q) ==
    LET i == RingOf(cfg, q)
    IN  /\ q[1] \in {RingX1(cfg, i), RingX2(cfg, i)}
        /\ q[2] > RingY1(cfg, i) /\ q[2] < RingY2(cfg, i)

\* the offset of q along its edge, from the ring's left end or its top end
EdgeOffset(cfg, q) ==
    IF OnHorizontalEdge(cfg, q)
    THEN q[1] - RingX1(cfg, RingOf(cfg, q))
    ELSE q[2] - RingY1(cfg, RingOf(cfg, q))

\* C18: Dashed uses (on, off) = (10, 5) and Dotted (2, 2): on every ring the
\* non-corner pixel at offset p along the top or bottom edge (from the ring's left
\* end) or along the left or right edge (from its top end) is set to color exactly
\* when p mod (on + off) < on and is left unchanged otherwise; the counter restarts
\* on each edge and on each ring.
C18_DashPattern ==
    [][(pc = "border" /\ config.style \in {"Dashed", "Dotted"}) =>
          \A q \in DOMAIN canvas.px :
              (/\ RingOf(config, q) >= 0 /\ RingOf(config, q) < config.size
               /\ (OnHorizontalEdge(config, q) \/ OnVerticalEdge(config, q))) =>
                  IF EdgeOffset(config, q) % (DashOn(config) + DashOff(config))
                        < DashOn(config)
                  THEN canvas'.px[q] = config.color
                  ELSE canvas'.px[q] = canvas.px[q] /\ canvas'.px[q] # config.color]_vars

C18_Witness ==
    /\ BorderDrawn
    /\ config.style = "Dashed"
    /\ config.size >= 2
    /\ source.image = LongImage
    /\ canvas.px[<<RingX1(config, 1) + 9, RingY1(config, 1)>>] = config.color
    /\ canvas.px[<<RingX1(config, 1) + 10, RingY1(config, 1)>>] # config.color
    /\ canvas.px[<<RingX1(config, 1) + 14, RingY2(config, 1)>>] # config.color
    /\ canvas.px[<<RingX1(config, 1) + 15, RingY2(config, 1)>>] = config.color
    /\ canvas.px[<<RingX2(config, 1), RingY1(config, 1) + 9>>] = config.color
    /\ canvas.px[<<RingX2(config, 1), RingY1(config, 1) + 10>>] # config.color
    /\ canvas.px[<<RingX1(config, 1), RingY1(config, 1) + 15>>] = config.color

\* q lies on the top row or the left column of its ring, or on its bottom row or
\* right column; the top-right and bottom-left corners lie on both
OnTopLeft(cfg, q) ==
    q[2] = RingY1(cfg, RingOf(cfg, q)) \/ q[1] = RingX1(cfg, RingOf(cfg, q))

OnBottomRight(cfg, q) ==
    q[2] = RingY2(cfg, RingOf(cfg, q)) \/ q[1] = RingX2(cfg, RingOf(cfg, q))

\* C19: Groove and Ridge shading: with half = size/2, light = color + 60 on each RGB
\* channel saturating at 255, dark = color - 60 saturating at 0, alpha unchanged,
\* Groove paints rings [half, 2*half) dark on the top and left edges and light on
\* the bottom and right edges, and rings [0, half) light on top/left and dark on
\* bottom/right; Ridge uses the opposite shade on each of those edges.
C19_GrooveRidge ==
    (BorderDrawn /\ config.style \in {"Groove", "Ridge"}) =>
        LET half == config.size \div 2
            light == Light(config.color)
            dark == Dark(config.color)
        IN  \A q \in DOMAIN canvas.px :
                LET i == RingOf(config, q)
                    darkTopLeft == (config.style = "Groove") <=> (i >= half)
                IN  (i >= 0 /\ i < 2 * half) =>
                        /\ (OnTopLeft(config, q) /\ ~OnBottomRight(config, q)) =>
                               canvas.px[q] = IF darkTopLeft THEN dark ELSE light
                        /\ (OnBottomRight(config, q) /\ ~OnTopLeft(config, q)) =>
                               canvas.px[q] = IF darkTopLeft THEN light ELSE dark

C19_Witness ==
    /\ BorderDrawn
    /\ config.style = "Groove"
    /\ config.size = 4
    /\ config.color = ShadeColor
    /\ canvas.px[<<ContentX(config), RingY1(config, 3)>>] = <<0, 68, 170, 200>>
    /\ canvas.px[<<ContentX(config), RingY1(config, 2)>>] = <<0, 68, 170, 200>>
    /\ canvas.px[<<ContentX(config), RingY1(config, 1)>>] = <<90, 188, 255, 200>>
    /\ canvas.px[<<RingX2(config, 0), ContentY(config)>>] = <<0, 68, 170, 200>>
    /\ canvas.px[<<RingX2(config, 3), ContentY(config)>>] = <<90, 188, 255, 200>>

\* C20: Inset and Outset shading: on every ring i in [0, size) the top and left
\* edges hold one shade and the bottom and right edges the other, dark on top/left
\* and light on bottom/right for Inset, the reverse for Outset; the top-left corner
\* takes the top/left shade, the bottom-right corner the bottom/right shade, the
\* top-right corner the bottom/right shade and the bottom-left corner the top/left
\* shade.
C20_InsetOutset ==
    (BorderDrawn /\ config.style \in {"Inset", "Outset"}) =>
        LET topLeft == IF config.style = "Inset"
                       THEN Dark(config.color) ELSE Light(config.color)
            bottomRight == IF config.style = "Inset"
                           THEN Light(config.color) ELSE Dark(config.color)
        IN  \A q \in DOMAIN canvas.px :
                LET i == RingOf(config, q)
                    x1 == RingX1(config, i)
                    y1 == RingY1(config, i)
                    x2 == RingX2(config, i)
                    y2 == RingY2(config, i)
                IN  (i >= 0 /\ i < config.size) =>
                        /\ (OnTopLeft(config, q) /\ ~OnBottomRight(config, q))
                               => canvas.px[q] = topLeft
                        /\ (OnBottomRight(config, q) /\ ~OnTopLeft(config, q))
                               => canvas.px[q] = bottomRight
                        /\ q = <<x1, y1>> => canvas.px[q] = topLeft
                        /\ q = <<x2, y2>> => canvas.px[q] = bottomRight
                        /\ q = <<x2, y1>> => canvas.px[q] = bottomRight
                        /\ q = <<x1, y2>> => canvas.px[q] = topLeft

C20_Witness ==
    /\ BorderDrawn
    /\ config.style = "Inset"
    /\ config.size = 3
    /\ config.color = ShadeColor
    /\ source.image.width > 1
    /\ canvas.px[<<RingX1(config, 2), RingY1(config, 2)>>] = <<0, 68, 170, 200>>
    /\ canvas.px[<<RingX2(config, 2), RingY1(config, 2)>>] = <<90, 188, 255, 200>>
    /\ canvas.px[<<RingX1(config, 2), RingY2(config, 2)>>] = <<0, 68, 170, 200>>
    /\ canvas.px[<<RingX2(config, 2), RingY2(config, 2)>>] = <<90, 188, 255, 200>>
    /\ canvas.px[<<ContentX(config), RingY1(config, 0)>>] = <<0, 68, 170, 200>>
    /\ canvas.px[<<ContentX(config), RingY2(config, 0)>>] = <<90, 188, 255, 200>>

\* the pixels of the shadow-anchored content rectangle, clipped to the canvas
ShadowRect == {q \in DOMAIN canvas.px : ShadowDist2(config, q) = 0}

\* C21: unblurred shadow footprint: with blur_radius = 0 the shadow renderer
\* composites exactly the pixels of the shadow-anchored content rectangle (content_w
\* x content_h pixels at content offset + (offset_x, offset_y), clipped to the
\* canvas), each with the configured shadow alpha unchanged, and no pixel outside it.
C21_UnblurredFootprint ==
    (ShadowDrawn /\ Unwrap(config.shadow).blur_radius = 0) =>
        /\ Footprint = ShadowRect
        /\ \A q \in DOMAIN canvas.px :
               IF q \in ShadowRect
               THEN canvas.px[q] =
                        blend_pixel(bg_color(config), Unwrap(config.shadow).color)
               ELSE canvas.px[q] = bg_color(config)

\* the canvas apply_border returns when the border renderer, the copy and the corner
\* mask all work at the position (x, y), over the shadow as draw_shadow draws it
Composed(x, y) ==
    LET w == source.image.width
        h == source.image.height
        bordered == draw_border(config, Underlay, x, y, w, h)
        copied == copy_image(bordered, source.image, x, y)
    IN  IF config.corner_radius > 0
        THEN apply_corner_mask(config, copied, x, y, w, h)
        ELSE copied

\* C22: one content offset for all stages: content_x = size + padding +
\* (ext_x - ext_x/2) and content_y = size + padding + (ext_y - ext_y/2) with
\* truncating division (for an odd extent the larger half precedes the content), and
\* the base the shadow renderer adds its offset to, the position passed to the border
\* renderer and to the corner mask, and the position the source is copied to are
\* that same pair.
C22_OneContentOffset ==
    /\ content_x(config) = config.size + config.padding
                             + (ExtentX(config) - ExtentX(config) \div 2)
    /\ content_y(config) = config.size + config.padding
                             + (ExtentY(config) - ExtentY(config) \div 2)
    /\ 2 * (content_x(config) - config.size - config.padding) >= ExtentX(config)
    /\ IsSome(config.shadow) =>
           shadow_origin(config, Unwrap(config.shadow))
               = <<ContentX(config) + Unwrap(config.shadow).offset_x,
                   ContentY(config) + Unwrap(config.shadow).offset_y>>
    /\ Returned => canvas = Composed(ContentX(config), ContentY(config))

C22_Witness ==
    /\ Returned
    /\ config.corner_radius > 0
    /\ config.size >= 1
    /\ IsSome(config.shadow)
    /\ ExtentX(config) % 2 = 1
    /\ ContentX(config) = config.size + config.padding + (ExtentX(config) + 1) \div 2
    /\ canvas.px[<<ContentX(config), ContentY(config)>>] = SourcePixel(0, 0)
    /\ canvas.px[<<ContentX(config) - 1, ContentY(config)>>] = config.color

\* stop_sound_thread has been entered and has not returned
SoundsStopping == sounds.host = "joining"

\* stop_sound_thread has returned: to on_unload, or drop is over
SoundsStopped ==
    /\ sounds.host \in {"idle", "dropped"}
    /\ sounds.sound_sender = None
    /\ sounds.sound_thread = None

\* a step of the worker handles the oldest command of the channel, and the worker
\* leaves its loop on a command only when that command is Shutdown and nothing was
\* sent after it
WorkerInOrder ==
    /\ (sounds'.handled # sounds.handled /\ sounds'.handled # <<>>) =>
           /\ sounds.channel # <<>>
           /\ sounds'.handled = Append(sounds.handled, Head(sounds.channel))
           /\ sounds'.channel = Tail(sounds.channel)
    /\ (sounds.worker = "recv" /\ sounds'.worker = "exited") =>
           /\ sounds.sound_sender = None
           /\ sounds.channel # <<>> => sounds.channel = << [kind |-> "Shutdown"] >>
           /\ sounds'.channel = <<>>

\* a stop that finds no sender sends nothing, and one that finds no handle returns
\* without waiting for any thread
StopWithoutThread ==
    /\ (sounds.host = "idle" /\ sounds'.host = "joining" /\ sounds.sound_sender = None)
           => sounds'.channel = sounds.channel
    /\ (sounds.host = "joining" /\ sounds.sound_thread = None)
           => (ENABLED SoundsJoin) /\ sounds'.worker = sounds.worker

\* C23: sound worker shutdown always completes: after on_load and any sequence of
\* events, on_unload (and Drop) returns: the worker handles every Play sent before
\* Shutdown in send order and exits on Shutdown, so the join in stop_sound_thread
\* cannot block forever, also when the worker exited early for want of an audio
\* output; a second stop (Drop after on_unload, or a stop without on_load) sends
\* nothing, joins nothing and returns.
C23_SoundShutdownCompletes ==
    /\ SoundsStopping ~> SoundsStopped
    /\ [][WorkerInOrder /\ StopWithoutThread]_vars

C23_Witness ==
    /\ sounds # NoSounds
    /\ sounds.host = "dropped"
    /\ sounds.caller = "drop"
    /\ sounds.worker = "exited"
    /\ sounds.sound_thread = None
    /\ sounds.channel = <<>>
    /\ sounds.handled = << [kind |-> "Play", path |-> "capture.wav", volume |-> 200],
                           [kind |-> "Play", path |-> "save.wav", volume |-> 200] >>

HotbarStopping == hotbar # NoHotbar /\ hotbar.host = "joining"

HotbarStopped == hotbar # NoHotbar /\ hotbar.host \in {"idle", "dropped"}

\* C24: hotbar shutdown always completes: once on_load has started the window thread,
\* a stop_hotbar that was entered (by on_unload or by Drop) eventually returns, with
\* no further window message having to arrive at the thread.
C24_HotbarShutdownCompletes == HotbarStopping ~> HotbarStopped


=============================================================================
